---- MODULE Spec2Model ----
(***************************************************************************)
(* INT8 calibration batch provider of the export package:                  *)
(*   common/export/base_calibrator.py        (BaseCalibrator)              *)
(*   common/export/tensorfile_calibrator.py  (TensorfileCalibrator)        *)
(*   makenet/spec_handling/spec_loader.py    (load_experiment_spec)        *)
(*   cv/efficientdet/scripts/train.py        (run_experiment)              *)
(* The calibrator streams records of a TensorFile into one device buffer   *)
(* and reads / writes the calibration cache file.                          *)
(***************************************************************************)
EXTENDS Integers, Sequences, FiniteSets, TLC

(* ------------------------------ bounds --------------------------------- *)
MaxRecords   == 2     \* records in the data file
MaxRows      == 3     \* leading dimension of a record
MaxWidth     == 2     \* elements per row of a record
MaxBatches   == 2     \* n_batches given to the constructor
MaxBatchSize == 2     \* batch_size given to the constructor
MaxBlobLen   == 2     \* bytes in a calibration cache blob
MaxCacheOps  == 3     \* cache reads and writes in one run
MaxLoads     == 2     \* load_experiment_spec calls in one process
MaxItem      == 2     \* field values of an experiment spec
MaxRanks     == 3     \* processes of a training run
MaxEpoch     == 2     \* epoch stored in a resume checkpoint

\* get_batch calls in one run: two more than the largest batch limit, so the
\* calls after the first null return are part of every run.
MaxCalls == MaxBatches + 2

\* Byte values of cache blobs: line feed and a plain byte.
Bytes == {10, 65}

VARIABLES
    data_file,      \* file system: the TensorFile at data_filename
    cache_file,     \* file system: the file at cache_filename
    n_batches,      \* constructor argument
    batch_size,     \* constructor argument
    pc,             \* "new" before the constructor ran, then "ready" or "failed"
    _data_source,   \* self._data_source
    _batch_count,   \* self._batch_count
    _data_mem,      \* self._data_mem
    ret,            \* outcome of the last call made by the driver
    hist,           \* outcomes of the get_batch calls so far, in call order
    alloc_count,    \* cuda.mem_alloc calls so far
    free_count,     \* DeviceAllocation.free calls so far
    open_handles,   \* cache file handles currently open
    cache_ops,      \* read / write calls on the cache so far
    last_write,     \* the blob of the last cache write, if that write succeeded
    written,        \* the blobs of the successful cache writes, in call order
    spec_files,     \* file system: the default and the custom spec file
    schema_proto,   \* VALIDATION_SCHEMA[schema]["proto"] of the process
    load_ret,       \* outcome of the last load_experiment_spec call
    loads,          \* load_experiment_spec calls so far
    world_size,     \* get_world_size() of the training run
    ckpt,           \* file system: the checkpoint at resume_ckpt_path
    rank_pc,        \* position of each rank in run_experiment
    train_from_epoch,   \* train_from_epoch of each rank
    fit_call        \* the trainer.fit call of each rank

calib_vars == <<data_file, cache_file, n_batches, batch_size, pc, _data_source,
                _batch_count, _data_mem, ret, hist, alloc_count, free_count,
                open_handles, cache_ops, last_write, written>>

loader_vars == <<spec_files, schema_proto, load_ret, loads>>

train_vars == <<world_size, ckpt, rank_pc, train_from_epoch, fit_call>>

vars == <<calib_vars, loader_vars, train_vars>>

(* --------------------------- Python values ----------------------------- *)
\* None, and numpy arrays as a shape and a sequence of rows.
None == [tag |-> "None", shape |-> <<>>, data |-> <<>>]

ndarray(shape, data) == [tag |-> "ndarray", shape |-> shape, data |-> data]

Min(a, b) == IF a < b THEN a ELSE b

\* Record number k of a data file with r rows of w elements; row i of record
\* k is filled with the value 10*k + i, so every row of a file is distinct.
RecordOf(k, r, w) ==
    ndarray(<<r, w>>, [i \in 1..r |-> [j \in 1..w |-> 10 * k + i]])

Shapes == (0..MaxRows) \X (1..MaxWidth)

\* The data files of n records.
FilesOfLen(n) ==
    { [k \in 1..n |-> RecordOf(k, s[k][1], s[k][2])] : s \in [1..n -> Shapes] }

DataFiles == UNION { FilesOfLen(n) : n \in 0..MaxRecords }

NoFile == [exists |-> FALSE, content |-> <<>>]

File(content) == [exists |-> TRUE, content |-> content]

\* np.array(x): None becomes a 0-d object array, which is not None.
np_array(x) == IF x = None THEN ndarray(<<>>, <<>>) ELSE x

\* batch.size: the number of elements of an array.
RECURSIVE Product(_)
Product(s) == IF s = <<>> THEN 1 ELSE Head(s) * Product(Tail(s))

np_len(batch) == batch.shape[1]

np_size(batch) == Product(batch.shape)

\* np.ascontiguousarray(batch, dtype=np.float32) as the flat element sequence.
RECURSIVE Flatten(_)
Flatten(rows) == IF rows = <<>> THEN <<>> ELSE Head(rows) \o Flatten(Tail(rows))

ascontiguousarray(batch) == Flatten(batch.data)

(* ------------------------------ TensorFile ----------------------------- *)
NoSource == [tag |-> "None", pos |-> 0]

\* TensorFile(data_filename, "r"): a forward-only cursor on the records.
TensorFile_open == [tag |-> "TensorFile", pos |-> 0]

\* TensorFile.read(): the next record, or None at end of stream.
TensorFile_read(src, file) ==
    IF src.pos < Len(file.content)
    THEN [value |-> file.content[src.pos + 1], source |-> [src EXCEPT !.pos = src.pos + 1]]
    ELSE [value |-> None, source |-> src]

(* ----------------------------- device memory --------------------------- *)
NoMem == [tag |-> "None", addr |-> 0, size |-> 0, valid |-> FALSE, content |-> <<>>]

\* cuda.mem_alloc(nbytes): a fresh allocation; the n-th allocation has address n.
mem_alloc(nbytes, n) ==
    [tag |-> "DeviceAllocation", addr |-> n, size |-> nbytes, valid |-> TRUE,
     content |-> [i \in 1..(nbytes \div 4) |-> 0]]

\* cuda.memcpy_htod(dest, src): src has 4 bytes per element.  A copy that fits
\* overwrites the head of the buffer.  A copy larger than the allocation is
\* out of bounds: the driver either rejects it or writes past the buffer.
memcpy_outcomes(dest, src) ==
    IF 4 * Len(src) <= dest.size THEN {"ok"} ELSE {"raise", "overrun"}

memcpy_htod(dest, src) ==
    [dest EXCEPT !.content =
        [i \in 1..Len(dest.content) |-> IF i <= Len(src) THEN src[i] ELSE dest.content[i]]]

\* DeviceAllocation.free(): releases a live allocation; on an allocation that
\* was already released the call either fails or does nothing.
free_outcomes(mem) == IF mem.valid THEN {"ok"} ELSE {"raise", "ok"}

free(mem) == [mem EXCEPT !.valid = FALSE]

(* ------------------------- TensorfileCalibrator ------------------------ *)
\* instantiate_data_source: a missing data file leaves _data_source at None.
instantiate_data_source_raising(file) ==
    IF file.exists THEN [kind |-> "ok", source |-> TensorFile_open]
    ELSE [kind |-> "raise", source |-> NoSource]

instantiate_data_source(file) ==
    IF file.exists THEN [kind |-> "ok", source |-> TensorFile_open]
    ELSE [kind |-> "ok", source |-> NoSource]

\* Line 76: batch_size < self._batch_size.
BatchTooSmall_never(batch, bs) == FALSE

BatchTooSmall(batch, bs) == batch.shape[1] < bs

\* Line 81: batch[:self._batch_size].
Truncate_last(batch, bs) ==
    LET r == Len(batch.data)
        n == Min(bs, r)
    IN  ndarray(<<n>> \o Tail(batch.shape), SubSeq(batch.data, r - n + 1, r))

Truncate(batch, bs) ==
    LET n == Min(bs, Len(batch.data))
    IN  ndarray(<<n>> \o Tail(batch.shape), SubSeq(batch.data, 1, n))

\* Variants of get_data_from_source, built on one fetch as the code does it.
fetch_once(src, file, bs) ==
    IF src.tag = "None"
    THEN [kind |-> "raise", err |-> "AttributeError", batch |-> None,
          source |-> src, rec |-> 0]
    ELSE
      LET rd    == TensorFile_read(src, file)
          batch == np_array(rd.value)
          rec   == IF rd.value = None THEN 0 ELSE rd.source.pos
      IN  IF batch.shape = <<>>
          THEN [kind |-> "raise", err |-> "IndexError", batch |-> None,
                source |-> rd.source, rec |-> rec]
          ELSE IF BatchTooSmall(batch, bs)
          THEN [kind |-> "raise", err |-> "ValueError: batch size", batch |-> None,
                source |-> rd.source, rec |-> rec]
          ELSE [kind |-> "ok", err |-> "", batch |-> Truncate(batch, bs),
                source |-> rd.source, rec |-> rec]

\* A record that is too small gives None instead of an exception.
get_data_from_source_none(src, file, bs) ==
    LET r == fetch_once(src, file, bs)
    IN  IF r.err = "ValueError: batch size"
        THEN [r EXCEPT !.kind = "ok", !.err = ""]
        ELSE r

\* The data file is read from its start again on every call.
get_data_from_source_reread(src, file, bs) ==
    [fetch_once(src, file, bs) EXCEPT !.source = src]

\* A record that is too small is dropped and the next record is tried.
get_data_from_source_retry(src, file, bs) ==
    LET r == fetch_once(src, file, bs)
    IN  IF r.err = "ValueError: batch size"
        THEN fetch_once(r.source, file, bs)
        ELSE r

\* The source is read once to test for a record and once more to use it.
get_data_from_source_peek(src, file, bs) ==
    IF src.tag = "None"
    THEN fetch_once(src, file, bs)
    ELSE fetch_once(TensorFile_read(src, file).source, file, bs)

\* get_data_from_source: the batch, or the exception raised; rec is the number
\* of the record that was read (0 when the source gave none).
get_data_from_source(src, file, bs) ==
    IF src.tag = "None"
    THEN [kind |-> "raise", err |-> "AttributeError", batch |-> None,
          source |-> src, rec |-> 0]
    ELSE
      LET rd    == TensorFile_read(src, file)
          batch == np_array(rd.value)
          rec   == IF rd.value = None THEN 0 ELSE rd.source.pos
      IN  IF batch # None
          THEN IF batch.shape = <<>>
               THEN [kind |-> "raise", err |-> "IndexError", batch |-> None,
                     source |-> rd.source, rec |-> rec]
               ELSE IF BatchTooSmall(batch, bs)
               THEN [kind |-> "raise", err |-> "ValueError: batch size", batch |-> None,
                     source |-> rd.source, rec |-> rec]
               ELSE [kind |-> "ok", err |-> "", batch |-> Truncate(batch, bs),
                     source |-> rd.source, rec |-> rec]
          ELSE [kind |-> "raise", err |-> "ValueError: no batch", batch |-> None,
                source |-> rd.source, rec |-> rec]

\* Line 97: self._data_mem is None.
NeedsAlloc_always(mem) == TRUE

NeedsAlloc(mem) == mem.tag = "None"

\* The outcome of a call as the driver sees it: what was returned or raised,
\* the number of the record the call read, the host batch it handed to the
\* device copy, and for cache calls the argument, the value and the I/O fault.
NoCall ==
    [op |-> "none", kind |-> "none", handles |-> <<>>, err |-> "", rec |-> 0,
     copied |-> FALSE, copy |-> <<>>, arg |-> <<>>, value |-> <<>>, fault |-> "none"]

GetBatchOutcome(kind, handles, err, rec, copied, copy) ==
    [NoCall EXCEPT !.op = "get_batch", !.kind = kind, !.handles = handles,
                   !.err = err, !.rec = rec, !.copied = copied, !.copy = copy]

CacheOutcome(op, kind, err, arg, value, fault) ==
    [NoCall EXCEPT !.op = op, !.kind = kind, !.err = err, !.arg = arg,
                   !.value = value, !.fault = fault]

\* __init__ of BaseCalibrator and TensorfileCalibrator.
Construct ==
    /\ pc = "new"
    /\ LET r == instantiate_data_source(data_file)
       IN  /\ pc' = IF r.kind = "ok" THEN "ready" ELSE "failed"
           /\ _data_source' = r.source
           /\ ret' = [NoCall EXCEPT !.op = "__init__",
                                     !.kind = IF r.kind = "ok" THEN "return" ELSE "raise"]
    /\ _batch_count' = 0
    /\ _data_mem' = NoMem
    /\ UNCHANGED <<data_file, cache_file, n_batches, batch_size, hist,
                   alloc_count, free_count, open_handles, cache_ops, last_write,
                   written>>
    /\ UNCHANGED <<loader_vars, train_vars>>

\* Lines 108-110 of get_batch with the counter reset for another run.
Release_rewind(rec) ==
    /\ _batch_count' = 0
    /\ UNCHANGED alloc_count
    /\ IF _data_mem # NoMem
       THEN \E o \in free_outcomes(_data_mem) :
              /\ free_count' = free_count + 1
              /\ IF o = "ok"
                 THEN /\ _data_mem' = free(_data_mem)
                      /\ ret' = GetBatchOutcome("null", <<>>, "", rec, FALSE, <<>>)
                 ELSE /\ _data_mem' = _data_mem
                      /\ ret' = GetBatchOutcome("raise", <<>>, "LogicError: free", rec, FALSE, <<>>)
       ELSE /\ UNCHANGED <<_data_mem, free_count>>
            /\ ret' = GetBatchOutcome("null", <<>>, "", rec, FALSE, <<>>)

\* Lines 108-110 of get_batch: release the buffer and return None.
Release(rec) ==
    /\ UNCHANGED <<_batch_count, alloc_count>>
    /\ IF _data_mem # NoMem
       THEN \E o \in free_outcomes(_data_mem) :
              /\ free_count' = free_count + 1
              /\ IF o = "ok"
                 THEN /\ _data_mem' = free(_data_mem)
                      /\ ret' = GetBatchOutcome("null", <<>>, "", rec, FALSE, <<>>)
                 ELSE /\ _data_mem' = _data_mem
                      /\ ret' = GetBatchOutcome("raise", <<>>, "LogicError: free", rec, FALSE, <<>>)
       ELSE /\ UNCHANGED <<_data_mem, free_count>>
            /\ ret' = GetBatchOutcome("null", <<>>, "", rec, FALSE, <<>>)

\* Lines 97-106 of get_batch without the increment of line 101.
Stage_nocount(batch, rec) ==
    LET alloc == NeedsAlloc(_data_mem)
        mem   == IF alloc THEN mem_alloc(np_size(batch) * 4, alloc_count + 1)
                 ELSE _data_mem
        host  == ascontiguousarray(batch)
    IN  /\ alloc_count' = IF alloc THEN alloc_count + 1 ELSE alloc_count
        /\ _batch_count' = _batch_count
        /\ UNCHANGED free_count
        /\ \E o \in memcpy_outcomes(mem, host) :
             IF o = "raise"
             THEN /\ _data_mem' = mem
                  /\ ret' = GetBatchOutcome("raise", <<>>, "LogicError: memcpy", rec,
                                            TRUE, batch.data)
             ELSE /\ _data_mem' = memcpy_htod(mem, host)
                  /\ ret' = GetBatchOutcome("handle", <<mem.addr>>, "", rec,
                                            TRUE, batch.data)

\* Lines 97-106 of get_batch: allocate on first use, count, copy, return.
Stage(batch, rec) ==
    LET alloc == NeedsAlloc(_data_mem)
        mem   == IF alloc THEN mem_alloc(np_size(batch) * 4, alloc_count + 1)
                 ELSE _data_mem
        host  == ascontiguousarray(batch)
    IN  /\ alloc_count' = IF alloc THEN alloc_count + 1 ELSE alloc_count
        /\ _batch_count' = _batch_count + 1
        /\ UNCHANGED free_count
        /\ \E o \in memcpy_outcomes(mem, host) :
             IF o = "raise"
             THEN /\ _data_mem' = mem
                  /\ ret' = GetBatchOutcome("raise", <<>>, "LogicError: memcpy", rec,
                                            TRUE, batch.data)
             ELSE /\ _data_mem' = memcpy_htod(mem, host)
                  /\ ret' = GetBatchOutcome("handle", <<mem.addr>>, "", rec,
                                            TRUE, batch.data)

\* get_batch(names).
get_batch ==
    /\ pc = "ready"
    /\ Len(hist) < MaxCalls
    /\ IF _batch_count < n_batches
       THEN LET r == get_data_from_source(_data_source, data_file, batch_size)
            IN  /\ _data_source' = r.source
                /\ IF r.kind = "raise"
                   THEN /\ ret' = GetBatchOutcome("raise", <<>>, r.err, r.rec, FALSE, <<>>)
                        /\ UNCHANGED <<_batch_count, _data_mem, alloc_count, free_count>>
                   ELSE IF r.batch # None
                        THEN Stage(r.batch, r.rec)
                        ELSE Release(r.rec)
       ELSE /\ UNCHANGED _data_source
            /\ Release(0)
    /\ hist' = Append(hist, ret')
    /\ UNCHANGED <<data_file, cache_file, n_batches, batch_size, pc,
                   open_handles, cache_ops, last_write, written>>
    /\ UNCHANGED <<loader_vars, train_vars>>

(* ------------------------- calibration cache --------------------------- *)
\* The byte blobs of at most MaxBlobLen bytes.
Blobs == UNION { [1..n -> Bytes] : n \in 0..MaxBlobLen }

NoWrite == [ok |-> FALSE, blob |-> <<>>]

\* os.path.isfile(self._cache_filename).
isfile(file) == file.exists

\* cal_file.read() on a file opened "rb": all bytes of the file.
file_readline(content) ==
    IF \E i \in 1..Len(content) : content[i] = 10
    THEN SubSeq(content, 1, CHOOSE i \in 1..Len(content) :
                               /\ content[i] = 10
                               /\ \A j \in 1..(i - 1) : content[j] # 10)
    ELSE content

file_read(content) == content

\* open(name, "wb") and f.write(cache): the file holds the blob alone.
file_write_append(old, cache) == old.content \o cache

file_write_inplace(old, cache) ==
    cache \o SubSeq(old.content, Len(cache) + 1, Len(old.content))

file_write(old, cache) == cache

\* Leaving a with block closes the handle, whether or not the body raised.
with_exit_leak(handles) == handles

with_exit(handles) == handles - 1

\* read_calibration_cache: fault is the I/O failure the call meets, if any.
read_calibration_cache_swallow(file, fault) ==
    IF isfile(file) /\ fault = "none"
    THEN [kind |-> "bytes", err |-> "", value |-> file_read(file.content)]
    ELSE [kind |-> "null", err |-> "", value |-> <<>>]

read_calibration_cache_result(file, fault) ==
    IF isfile(file)
    THEN IF fault # "none"
         THEN [kind |-> "raise", err |-> "OSError", value |-> <<>>]
         ELSE [kind |-> "bytes", err |-> "", value |-> file_read(file.content)]
    ELSE [kind |-> "null", err |-> "", value |-> <<>>]

read_calibration_cache ==
    /\ pc = "ready"
    /\ cache_ops < MaxCacheOps
    /\ \E fault \in {"none", "open", "read"} :
         LET r == read_calibration_cache_result(cache_file, fault)
             f == IF isfile(cache_file) THEN fault ELSE "none"
             opened == isfile(cache_file) /\ fault # "open"
         IN  /\ ret' = CacheOutcome("read", r.kind, r.err, <<>>, r.value, f)
             /\ open_handles' = IF opened THEN with_exit(open_handles + 1)
                                ELSE open_handles
    /\ cache_ops' = cache_ops + 1
    /\ UNCHANGED <<data_file, cache_file, n_batches, batch_size, pc, _data_source,
                   _batch_count, _data_mem, hist, alloc_count, free_count,
                   last_write, written>>
    /\ UNCHANGED <<loader_vars, train_vars>>

\* write_calibration_cache(cache).  A failing open leaves the file alone; a
\* failing write leaves a file that was truncated by the open and holds some
\* proper prefix of the blob.
write_calibration_cache ==
    /\ pc = "ready"
    /\ cache_ops < MaxCacheOps
    /\ \E cache \in Blobs, fault \in {"none", "open", "write"} :
         \/ /\ fault = "none"
            /\ cache_file' = File(file_write(cache_file, cache))
            /\ open_handles' = with_exit(open_handles + 1)
            /\ last_write' = [ok |-> TRUE, blob |-> cache]
            /\ written' = Append(written, cache)
            /\ ret' = CacheOutcome("write", "return", "", cache, <<>>, fault)
         \/ /\ fault = "open"
            /\ UNCHANGED <<cache_file, open_handles, written>>
            /\ last_write' = NoWrite
            /\ ret' = CacheOutcome("write", "raise", "OSError", cache, <<>>, fault)
         \/ /\ fault = "write"
            /\ \E n \in 0..Len(cache) :
                 /\ n < Len(cache) \/ n = 0
                 /\ cache_file' = File(SubSeq(cache, 1, n))
            /\ open_handles' = with_exit(open_handles + 1)
            /\ last_write' = NoWrite
            /\ UNCHANGED written
            /\ ret' = CacheOutcome("write", "raise", "OSError", cache, <<>>, fault)
    /\ cache_ops' = cache_ops + 1
    /\ UNCHANGED <<data_file, n_batches, batch_size, pc, _data_source,
                   _batch_count, _data_mem, hist, alloc_count, free_count>>
    /\ UNCHANGED <<loader_vars, train_vars>>

(* ------------------------- experiment spec loader ---------------------- *)
\* An experiment spec with one scalar field s (0 when not set) and one
\* repeated field r; a spec file is the text form of such a message.
Message(sv, rv) == [s |-> sv, r |-> rv]

\* experiment_pb2.Experiment(): the empty message.
Experiment == Message(0, <<>>)

SpecTexts ==
    { Message(sv, rv) : sv \in 0..MaxItem,
                        rv \in {<<>>} \cup { <<i>> : i \in 1..MaxItem } }

Schemas == {"train_val", "validation"}

\* The spec_path arguments: none, or the path of the custom spec file.
SpecPaths == {"", "custom"}

\* VALIDATION_SCHEMA[schema]["default_spec"]: one path for both schemas.
default_spec(schema) == "default"

\* text_format.Merge(text, pb2): a scalar of the text overwrites the field of
\* the message, the items of a repeated field are appended to it.
merge_text_proto(text, pb2) ==
    Message(IF text.s # 0 THEN text.s ELSE pb2.s, pb2.r \o text.r)

\* load_proto: the message after the merges, or the failed assertion.
load_proto(spec_path, proto_buffer, default_spec_path, merge_from_default, files) ==
    IF ~merge_from_default /\ spec_path = ""
    THEN [kind |-> "raise", proto |-> proto_buffer]
    ELSE LET base == IF merge_from_default
                     THEN merge_text_proto(files[default_spec_path], proto_buffer)
                     ELSE proto_buffer
         IN  [kind |-> "return",
              proto |-> IF spec_path # ""
                        THEN merge_text_proto(files[spec_path], base)
                        ELSE base]

\* Line 109: the message load_experiment_spec loads into.
experiment_spec_of(protos, validation_schema) == protos[validation_schema]

NoLoad ==
    [kind |-> "none", spec |-> Experiment,
     args |-> [spec_path |-> "", merge_from_default |-> TRUE,
               validation_schema |-> "train_val"]]

\* load_experiment_spec(spec_path, merge_from_default, validation_schema).
\* The message is the object held by VALIDATION_SCHEMA, so the merges of
\* load_proto change it in place, also when validate_spec then rejects it.
load_experiment_spec ==
    /\ loads < MaxLoads
    /\ \E spec_path \in SpecPaths, merge_from_default \in BOOLEAN,
          validation_schema \in Schemas, valid \in BOOLEAN :
         LET args == [spec_path |-> spec_path,
                      merge_from_default |-> merge_from_default,
                      validation_schema |-> validation_schema]
             r == load_proto(spec_path,
                             experiment_spec_of(schema_proto, validation_schema),
                             default_spec(validation_schema),
                             merge_from_default, spec_files)
         IN  /\ schema_proto' = [schema_proto EXCEPT ![validation_schema] = r.proto]
             /\ load_ret' = [kind |-> IF r.kind = "return" /\ valid
                                      THEN "return" ELSE "raise",
                             spec |-> r.proto, args |-> args]
    /\ loads' = loads + 1
    /\ UNCHANGED <<spec_files, calib_vars, train_vars>>

\* No load_experiment_spec call is part of the run.
LoaderIdle ==
    /\ spec_files = [f \in {"default", "custom"} |-> Experiment]
    /\ schema_proto = [sc \in Schemas |-> Experiment]
    /\ load_ret = NoLoad
    /\ loads = 0

(* ---------------------------- training ranks --------------------------- *)
NoCkpt == [exists |-> FALSE, epoch |-> 0]

Ranks == 0..(world_size - 1)

\* is_main_process() on rank r.
is_main_process(r) == r = 0

\* keras_utils.restore_ckpt(...): the epoch the checkpoint was saved at.
restore_ckpt(c) == c.epoch

\* Lines 145-146: the ranks that restore the resume checkpoint.
restores(c, r) == c.exists /\ is_main_process(r)

NoFit == [called |-> FALSE, initial_epoch |-> 0]

\* Lines 144-154 of run_experiment on rank r.
resume(r) ==
    /\ rank_pc[r] = "start"
    /\ train_from_epoch' =
           [train_from_epoch EXCEPT ![r] = IF restores(ckpt, r)
                                           THEN restore_ckpt(ckpt) ELSE 0]
    /\ rank_pc' = [rank_pc EXCEPT ![r] = "resumed"]
    /\ UNCHANGED <<world_size, ckpt, fit_call, calib_vars, loader_vars>>

\* Lines 172-180 of run_experiment on rank r: trainer.fit(...).
fit(r) ==
    /\ rank_pc[r] = "resumed"
    /\ fit_call' = [fit_call EXCEPT ![r] = [called |-> TRUE,
                                           initial_epoch |-> train_from_epoch[r]]]
    /\ rank_pc' = [rank_pc EXCEPT ![r] = "fit"]
    /\ UNCHANGED <<world_size, ckpt, train_from_epoch, calib_vars, loader_vars>>

\* No training run is part of the run.
TrainIdle ==
    /\ world_size = 1
    /\ ckpt = NoCkpt
    /\ rank_pc = [r \in {0} |-> "fit"]
    /\ train_from_epoch = [r \in {0} |-> 0]
    /\ fit_call = [r \in {0} |-> NoFit]

(* --------------------------- batch provider ---------------------------- *)
Init ==
    /\ data_file \in {NoFile} \cup { File(f) : f \in DataFiles }
    /\ cache_file = NoFile
    /\ n_batches \in 0..MaxBatches
    /\ batch_size \in 1..MaxBatchSize
    /\ pc = "new"
    /\ _data_source = NoSource
    /\ _batch_count = 0
    /\ _data_mem = NoMem
    /\ ret = NoCall
    /\ hist = <<>>
    /\ alloc_count = 0
    /\ free_count = 0
    /\ open_handles = 0
    /\ cache_ops = 0
    /\ last_write = NoWrite
    /\ written = <<>>
    /\ LoaderIdle
    /\ TrainIdle

Next == Construct \/ get_batch

Spec == Init /\ [][Next]_vars

(* ----------------------- cache reads and writes ------------------------ *)
\* The calibrator with any cache file on disk, and with or without a data
\* file; the driver then reads and writes the cache.
InitCache ==
    /\ data_file \in {NoFile, File(<<>>)}
    /\ cache_file \in {NoFile} \cup { File(b) : b \in Blobs }
    /\ n_batches = 0
    /\ batch_size = 1
    /\ pc = "new"
    /\ _data_source = NoSource
    /\ _batch_count = 0
    /\ _data_mem = NoMem
    /\ ret = NoCall
    /\ hist = <<>>
    /\ alloc_count = 0
    /\ free_count = 0
    /\ open_handles = 0
    /\ cache_ops = 0
    /\ last_write = NoWrite
    /\ written = <<>>
    /\ LoaderIdle
    /\ TrainIdle

NextCache == Construct \/ read_calibration_cache \/ write_calibration_cache

SpecCache == InitCache /\ [][NextCache]_vars

(* -------------------------- repeated spec loads ------------------------ *)
\* One process that calls load_experiment_spec, with any two spec files.
CalibIdle ==
    /\ data_file = NoFile
    /\ cache_file = NoFile
    /\ n_batches = 0
    /\ batch_size = 1
    /\ pc = "failed"
    /\ _data_source = NoSource
    /\ _batch_count = 0
    /\ _data_mem = NoMem
    /\ ret = NoCall
    /\ hist = <<>>
    /\ alloc_count = 0
    /\ free_count = 0
    /\ open_handles = 0
    /\ cache_ops = 0
    /\ last_write = NoWrite
    /\ written = <<>>

InitLoader ==
    /\ spec_files \in [{"default", "custom"} -> SpecTexts]
    /\ schema_proto = [sc \in Schemas |-> Experiment]
    /\ load_ret = NoLoad
    /\ loads = 0
    /\ CalibIdle
    /\ TrainIdle

NextLoader == load_experiment_spec

SpecLoader == InitLoader /\ [][NextLoader]_vars

(* ------------------------- multi-process training ---------------------- *)
\* A training run of 1..MaxRanks ranks, with or without a resume checkpoint.
InitTrain ==
    /\ world_size \in 1..MaxRanks
    /\ ckpt \in {NoCkpt} \cup { [exists |-> TRUE, epoch |-> e] : e \in 0..MaxEpoch }
    /\ rank_pc = [r \in Ranks |-> "start"]
    /\ train_from_epoch = [r \in Ranks |-> 0]
    /\ fit_call = [r \in Ranks |-> NoFit]
    /\ CalibIdle
    /\ LoaderIdle

NextTrain == \E r \in Ranks : resume(r) \/ fit(r)

SpecTrain == InitTrain /\ [][NextTrain]_vars

(* ------------------------------ properties ----------------------------- *)
\* The records of the data file and the number of rows of record k.
Records == data_file.content

Rows(k) == Records[k].shape[1]

\* The data file holds at least n_batches records, each of at least
\* batch_size rows.
SourceSuffices ==
    /\ data_file.exists
    /\ Len(Records) >= n_batches
    /\ \A k \in 1..Len(Records) : Rows(k) >= batch_size

\* Every record of the data file has as many elements per row as the first.
UniformWidth == \A k \in 1..Len(Records) : Records[k].shape[2] = Records[1].shape[2]

\* C1: with batch limit N and a source of at least N records that each have
\* at least batch_size rows, calls 1..N of get_batch return a handle list and
\* call N+1 returns null.
C1_HandlesThenNull ==
    SourceSuffices =>
        \A k \in 1..Len(hist) :
            /\ k <= n_batches => hist[k].kind = "handle"
            /\ k = n_batches + 1 => hist[k].kind = "null"

\* C2: with M records in the source and a batch limit above M, call M+1 of
\* get_batch raises the "batch wasn't yielded" error of get_data_from_source;
\* it returns neither null nor a handle.
C2_ExhaustedRaisesNoBatch ==
    (data_file.exists /\ n_batches > Len(Records) /\ Len(hist) > Len(Records)) =>
        /\ hist[Len(Records) + 1].kind = "raise"
        /\ hist[Len(Records) + 1].err = "ValueError: no batch"

\* The last call was a get_batch call that read record number ret.rec.
ReadARecord == ret.op = "get_batch" /\ ret.rec > 0

\* C3: a get_batch call that reads a record of fewer than batch_size rows
\* raises the batch size error and hands nothing to the device copy.
C3_SmallRecordRaises ==
    (ReadARecord /\ Rows(ret.rec) < batch_size) =>
        /\ ret.kind = "raise"
        /\ ret.err = "ValueError: batch size"
        /\ ~ret.copied

C3_Witness ==
    /\ ReadARecord
    /\ Rows(ret.rec) < batch_size
    /\ Rows(ret.rec) > 0
    /\ ret.kind = "raise"

\* C4: a get_batch call that reads a record of at least batch_size rows hands
\* the first batch_size rows of that record, in order, to the device copy, and
\* a copy that fits leaves exactly those rows at the head of the buffer.
C4_FirstRowsCopied ==
    (ReadARecord /\ Rows(ret.rec) >= batch_size) =>
        /\ ret.copied
        /\ ret.copy = SubSeq(Records[ret.rec].data, 1, batch_size)
        /\ ret.kind = "handle" =>
             \A i \in 1..Min(Len(Flatten(ret.copy)), Len(_data_mem.content)) :
                 _data_mem.content[i] = Flatten(ret.copy)[i]

C4_Witness ==
    /\ ReadARecord
    /\ Rows(ret.rec) > batch_size
    /\ batch_size > 1
    /\ ret.kind = "handle"
    /\ Len(ret.copy) = batch_size

\* C5: the device buffer is allocated once, by the first call that fetched a
\* batch, and every handle list returned holds the address of that one buffer.
C5_OneAllocation ==
    /\ alloc_count = IF _batch_count > 0 THEN 1 ELSE 0
    /\ \A k \in 1..Len(hist) :
         hist[k].kind = "handle" => hist[k].handles = <<_data_mem.addr>>
    /\ _data_mem # NoMem => _data_mem.addr = 1

C5_Witness ==
    /\ Len(hist) >= 2
    /\ \A k \in 1..2 : hist[k].kind = "handle"
    /\ alloc_count = 1

\* C6: a get_batch call made when batch_count >= batch_limit returns null and
\* leaves the provider without a live device buffer.
C6_AtLimitNullAndReleased ==
    [][(pc = "ready" /\ _batch_count >= n_batches /\ hist' # hist) =>
          (ret'.kind = "null" /\ ~_data_mem'.valid)]_vars

\* C7: a successful write of blob B followed by a read, with no write in
\* between, returns exactly B.
C7_RoundTrip ==
    (ret.op = "read" /\ ret.fault = "none" /\ last_write.ok) =>
        /\ ret.kind = "bytes"
        /\ ret.value = last_write.blob

C7_Witness ==
    /\ ret.op = "read"
    /\ ret.fault = "none"
    /\ last_write.ok
    /\ Len(last_write.blob) = MaxBlobLen
    /\ ret.value = last_write.blob
    /\ cache_ops >= 3

\* C8: a read that meets no I/O failure returns the whole cache file as it is
\* when the file exists, and a read with no cache file returns None without
\* raising.
C8_ReadVerbatimOrAbsent ==
    ret.op = "read" =>
        /\ (isfile(cache_file) /\ ret.fault = "none") =>
               (ret.kind = "bytes" /\ ret.value = cache_file.content)
        /\ ~isfile(cache_file) => ret.kind = "null"

C8_Witness ==
    /\ ret.op = "read"
    /\ ret.kind = "bytes"
    /\ Len(ret.value) = MaxBlobLen
    /\ ret.value[1] = 10
    /\ ~last_write.ok

C8_WitnessAbsent == ret.op = "read" /\ ~isfile(cache_file) /\ ret.kind = "null"

\* C9: with no data file, construction succeeds and leaves the provider
\* without a source, and a read of a present cache file returns its contents.
C9_CacheOnlyMode ==
    (pc # "new" /\ ~data_file.exists) =>
        /\ pc = "ready"
        /\ _data_source = NoSource
        /\ ret.op = "__init__" => ret.kind = "return"
        /\ (ret.op = "read" /\ isfile(cache_file) /\ ret.fault = "none") =>
               (ret.kind = "bytes" /\ ret.value = cache_file.content)

C9_Witness ==
    /\ ~data_file.exists
    /\ pc = "ready"
    /\ ret.op = "read"
    /\ ret.kind = "bytes"
    /\ ret.value # <<>>

\* C10 as stated: a read of an existing cache file that meets an I/O failure
\* returns None.
C10_ReadFaultIsAbsent ==
    (ret.op = "read" /\ ret.fault # "none") => ret.kind = "null"

\* C10 as amended: a read of an existing cache file that meets an I/O failure
\* raises that failure to the caller; only a missing file gives None.
C10_ReadFaultRaises ==
    ret.op = "read" =>
        /\ ret.fault # "none" => (ret.kind = "raise" /\ ret.err = "OSError")
        /\ ret.kind = "null" => ~isfile(cache_file)

C10_Witness ==
    /\ ret.op = "read"
    /\ ret.fault = "read"
    /\ isfile(cache_file)
    /\ ret.kind = "raise"

\* C11: a cache write that meets an I/O failure raises that failure to the
\* caller, the call is not repeated, and no call on the cache leaves a file
\* handle open, the failing write included.
C11_WriteFaultRaisesAndCloses ==
    /\ open_handles = 0
    /\ (ret.op = "write" /\ ret.fault # "none") =>
           /\ ret.kind = "raise"
           /\ ret.err = "OSError"
           /\ ~last_write.ok
    /\ Len(written) <= cache_ops

C11_Witness ==
    /\ ret.op = "write"
    /\ ret.fault = "write"
    /\ ret.kind = "raise"
    /\ ret.arg # <<>>
    /\ open_handles = 0

\* C12: after successful writes B1, ..., Bk the cache file holds Bk alone and
\* a read returns Bk, also when Bk is shorter than an earlier blob.
C12_WriteReplaces ==
    last_write.ok =>
        /\ written # <<>>
        /\ cache_file = File(written[Len(written)])
        /\ (ret.op = "read" /\ ret.fault = "none") =>
               (ret.kind = "bytes" /\ ret.value = written[Len(written)])

C12_Witness ==
    /\ Len(written) >= 2
    /\ Len(written[Len(written)]) < Len(written[Len(written) - 1])
    /\ last_write.ok
    /\ ret.op = "read"
    /\ ret.kind = "bytes"
    /\ ret.value = written[Len(written)]

\* The get_batch calls among the first k that returned a handle list.
Handles(k) == { j \in 1..k : hist[j].kind = "handle" }

\* C13: 0 <= batch_count <= batch_limit in every state, batch_count never
\* decreases, and batch_count is the number of get_batch calls that returned
\* a handle list.
C13_CountIsHandlesReturned ==
    /\ [](/\ 0 <= _batch_count
          /\ _batch_count <= n_batches
          /\ _batch_count = Cardinality(Handles(Len(hist))))
    /\ [][_batch_count' >= _batch_count]_vars

\* The first get_batch call that fetched a batch and staged it.
Staged(k) == hist[k].copied

FirstStaged == CHOOSE k \in 1..Len(hist) : Staged(k) /\ \A j \in 1..(k - 1) : ~Staged(j)

\* C14: the device buffer has batch_size x (elements per row of the first
\* staged batch) x 4 bytes, and once allocated its size and address never
\* change and no further allocation is made.
C14_BufferSizeFixed ==
    /\ [](_data_mem # NoMem =>
            /\ \E k \in 1..Len(hist) : Staged(k)
            /\ _data_mem.size = batch_size * Records[hist[FirstStaged].rec].shape[2] * 4
            /\ 4 * Len(_data_mem.content) = _data_mem.size)
    /\ [][_data_mem # NoMem =>
            /\ _data_mem'.size = _data_mem.size
            /\ _data_mem'.addr = _data_mem.addr
            /\ alloc_count' = alloc_count]_vars

C14_Witness ==
    /\ Len(hist) >= 2
    /\ hist[1].kind = "handle"
    /\ hist[2].kind = "handle"
    /\ Records[2].shape[2] < Records[1].shape[2]
    /\ _data_mem.size = batch_size * Records[1].shape[2] * 4
    /\ batch_size > 1

\* C15: the buffer is released only by a get_batch call made at
\* batch_count >= batch_limit; as long as no such call was made, also after a
\* call that raised, free was never called and an allocated buffer is live.
C15_ReleasedOnlyAtLimit ==
    /\ [][(_data_mem.valid /\ ~_data_mem'.valid) =>
            (_batch_count >= n_batches /\ ret'.kind = "null")]_vars
    /\ []((_batch_count < n_batches \/ \A k \in 1..Len(hist) : hist[k].kind # "null") =>
            /\ free_count = 0
            /\ _data_mem # NoMem => _data_mem.valid)

C15_Witness ==
    /\ ret.op = "get_batch"
    /\ ret.kind = "raise"
    /\ _data_mem.valid
    /\ _batch_count >= 1
    /\ _batch_count < n_batches
    /\ free_count = 0

\* The get_batch calls among the first k that read a record of the source.
Reads(k) == Cardinality({ j \in 1..k : hist[j].rec > 0 })

\* C16: the records are read in file order, one per call that gets one: the
\* k-th such call reads record k, and in a run of handle returns the k-th
\* call stages the first batch_size rows of record k.
C16_ForwardOnly ==
    /\ \A k \in 1..Len(hist) : hist[k].rec > 0 => hist[k].rec = Reads(k)
    /\ _data_source.pos = Reads(Len(hist))
    /\ \A k \in 1..Len(hist) :
         (\A j \in 1..k : hist[j].kind = "handle") =>
             /\ hist[k].rec = k
             /\ hist[k].copy = SubSeq(Records[k].data, 1, batch_size)

C16_Witness ==
    /\ Len(hist) >= 2
    /\ hist[1].kind = "handle"
    /\ hist[2].kind = "handle"
    /\ hist[2].rec = 2
    /\ hist[2].copy # hist[1].copy

\* The exceptions of a fetch that failed.
FetchErrors == {"ValueError: batch size", "IndexError", "ValueError: no batch"}

\* C17: a get_batch call that raises a fetch error leaves batch_count and the
\* device buffer as they were, allocates and frees nothing, and has read the
\* source at most once.
C17_FetchFailureKeepsState ==
    [][(hist' # hist /\ ret'.kind = "raise" /\ ret'.err \in FetchErrors) =>
          /\ _batch_count' = _batch_count
          /\ _data_mem' = _data_mem
          /\ alloc_count' = alloc_count
          /\ free_count' = free_count
          /\ _data_source'.pos <= _data_source.pos + 1]_vars

C17_Witness ==
    /\ ret.op = "get_batch"
    /\ ret.kind = "raise"
    /\ ret.err = "ValueError: batch size"
    /\ _batch_count = 1
    /\ _data_mem.valid
    /\ _data_mem.content = Flatten(hist[1].copy)

\* A get_batch call that returns null reads no record and keeps batch_count.
NullReadsNothing ==
    [][(hist' # hist /\ ret'.kind = "null") =>
          (_data_source' = _data_source /\ _batch_count' = _batch_count)]_vars

\* The get_batch calls so far that read a record and raised without staging it.
FailedFetches ==
    Cardinality({ k \in 1..Len(hist) :
                    hist[k].kind = "raise" /\ hist[k].rec > 0 /\ ~hist[k].copied })

\* C18 as stated: a null return reads nothing and keeps batch_count, and the
\* provider never reads more than batch_limit records.
C18_AtMostLimitRecordsRead ==
    NullReadsNothing /\ [](_data_source.pos <= n_batches)

\* C18 as amended: a null return reads nothing and keeps batch_count, and the
\* provider reads one record per staged batch, at most batch_limit of them,
\* and one more per call that raised the batch size error.
C18_NullReadsNothing ==
    /\ NullReadsNothing
    /\ [](/\ _data_source.pos = _batch_count + FailedFetches
          /\ _batch_count <= n_batches)

C18_Witness ==
    /\ ret.op = "get_batch"
    /\ ret.kind = "null"
    /\ n_batches >= 1
    /\ _batch_count = n_batches
    /\ _data_source.pos = n_batches
    /\ Len(Records) > n_batches

\* C19: a driver that stops at the first null return or exception makes at
\* most batch_limit + 1 calls: no run starts with more than batch_limit
\* handle returns.
C19_LoopEndsByLimitPlusOne ==
    \A k \in 1..Len(hist) :
        (\A j \in 1..k : hist[j].kind = "handle") => k <= n_batches

C19_Witness ==
    /\ n_batches = MaxBatches
    /\ Len(hist) = n_batches + 1
    /\ \A j \in 1..n_batches : hist[j].kind = "handle"
    /\ hist[n_batches + 1].kind = "null"

\* C20: free is called at most once on the buffer, and every get_batch call
\* after a null return returns null.
C20_ReleasedOnce ==
    /\ free_count <= 1
    /\ \A k \in 1..Len(hist) :
         (\E j \in 1..(k - 1) : hist[j].kind = "null") => hist[k].kind = "null"

\* C21: a device copy is made only into a buffer that is allocated and was
\* never released, and once free was called no later get_batch call copies
\* or returns a handle.
C21_NoUseAfterRelease ==
    /\ [](ret.copied => (_data_mem # NoMem /\ _data_mem.valid /\ free_count = 0))
    /\ [][(free_count > 0 /\ hist' # hist) =>
            (~ret'.copied /\ ret'.kind # "handle")]_vars

C21_Witness ==
    /\ Len(hist) >= 3
    /\ hist[1].kind = "handle"
    /\ hist[2].kind = "null"
    /\ free_count >= 1
    /\ ~_data_mem.valid
    /\ ret.kind # "handle"

\* C22: every device copy made by get_batch has the byte size the buffer was
\* allocated with.
C22_CopyFitsBuffer ==
    \A k \in 1..Len(hist) :
        hist[k].copied => 4 * Len(Flatten(hist[k].copy)) = _data_mem.size

\* C23: without a data source, a get_batch call with batch_limit > 0 raises
\* the "batch wasn't yielded" ValueError, returns no handle, allocates no
\* buffer and leaves batch_count at 0.
C23_NoSourceRaisesNoBatch ==
    (pc = "ready" /\ _data_source = NoSource /\ n_batches > 0 /\ ret.op = "get_batch") =>
        /\ ret.kind = "raise"
        /\ ret.err = "ValueError: no batch"
        /\ _batch_count = 0
        /\ _data_mem = NoMem
        /\ alloc_count = 0

\* The spec a fresh process returns for the arguments of a call.
FreshLoad(args) ==
    load_proto(args.spec_path, Experiment, default_spec(args.validation_schema),
               args.merge_from_default, spec_files).proto

\* C24: every load_experiment_spec call returns the spec a fresh process
\* returns for the same arguments, whatever calls were made before it.
C24_LoadIndependentOfHistory ==
    load_ret.kind = "return" => load_ret.spec = FreshLoad(load_ret.args)

\* C25: with a resume checkpoint in results_dir, every rank calls
\* trainer.fit with the epoch restored from the checkpoint as initial_epoch.
C25_SameInitialEpoch ==
    ckpt.exists =>
        \A r \in Ranks :
            fit_call[r].called => fit_call[r].initial_epoch = restore_ckpt(ckpt)

====
